---- MODULE Spec2Model ----
(***************************************************************************)
(* Template-matching engine of src-tauri: services/template_matcher.rs     *)
(* (match_templates_batch, find_template_internal and their helpers) and   *)
(* the IPC command commands/template_match.rs (match_hint_images).         *)
(*                                                                         *)
(* Abstractions.                                                           *)
(*  - An f32 is a record [cls, v]: cls = "finite" with v in hundredths,    *)
(*    or "nan", or "inf" with v = 1 / -1 for the sign.                     *)
(*  - An f64 scale factor is a rational [n, d] with d a power of two, so   *)
(*    that (orig as f64) * scale_factor is exact.                          *)
(*  - Option<T> is a sequence: <<>> for None, <<x>> for Some(x).           *)
(*  - A base64 string is abstracted by what decoding it yields.  For a     *)
(*    template: whether base64 and image decoding succeed, the image's     *)
(*    width, height and number of pixels with alpha > 0, and the answers   *)
(*    of the external crates for that pixel content: how many pixels the   *)
(*    Lanczos3 resampling leaves with alpha > 0 (resampled) and the        *)
(*    maximum of the correlation surface and where it lies (nccMax,        *)
(*    nccAt).  The crates are deterministic, so their answers are part of  *)
(*    the input's content, and every combination of answers is an input.   *)
(***************************************************************************)
EXTENDS Integers, Sequences, FiniteSets, TLC

\* ------------------------------------------------------------------ bounds
MaxTemplates == 2
\* largest side of the images converted pixel by pixel
MaxSide == 2
\* longest wait, in whole check intervals (plus a fraction of one)
MaxIntervals == 3
\* threads calling register_emergency_stop, and calls made in all
MaxThreads == 3
MaxRegisterCalls == 5
\* parts of a key combination
MaxParts == 3

\* --------------------------------------------------------------- f32 values
F(v) == [cls |-> "finite", v |-> v]
NaN == [cls |-> "nan", v |-> 0]
PosInf == [cls |-> "inf", v |-> 1]

IsFinite(f) == f.cls = "finite"

\* IEEE comparison a >= b
Ge(a, b) ==
  CASE a.cls = "nan" \/ b.cls = "nan" -> FALSE
    [] a.cls = "inf" -> a.v > 0 \/ (b.cls = "inf" /\ b.v < 0)
    [] b.cls = "inf" -> b.v < 0
    [] OTHER -> a.v >= b.v

\* ----------------------------------------------------------- Option values
None == <<>>
Some(x) == <<x>>
IsSome(o) == Len(o) = 1
\* mutant: the default is taken whatever the caller supplied
UnwrapOrDefault(o, dflt) == dflt

UnwrapOr(o, dflt) == IF IsSome(o) THEN o[1] ELSE dflt

Min(a, b) == IF a <= b THEN a ELSE b
Max(a, b) == IF a >= b THEN a ELSE b

\* ---------------------------------------------------------- program constants
\* MIN_OPACITY_RATIO: f32 = 0.1, kept as the rational 1/10
MIN_OPACITY_RATIO == [n |-> 1, d |-> 10]
\* confidence_threshold.unwrap_or(0.7), in hundredths
DefaultThreshold == 70
\* check_interval = Duration::from_millis(100), in milliseconds
CHECK_INTERVAL == 100
\* image_processor.rs
MAX_LONG_EDGE == 1920
MAX_TOTAL_PIXELS == 2000000

\* ---------------------------------------------------------------- inputs
Template(kind, w, h, opaque, resampled, nccMax, nccAt) ==
  [kind |-> kind, w |-> w, h |-> h, opaque |-> opaque,
   resampled |-> resampled, nccMax |-> nccMax, nccAt |-> nccAt]

BadBase64Template == Template("bad_base64", 0, 0, 0, "clear", F(0), <<0, 0>>)
BadImageTemplate == Template("bad_image", 0, 0, 0, "clear", F(0), <<0, 0>>)
TransparentTemplate(w, h) == Template("image", w, h, 0, "clear", F(0), <<0, 0>>)

TemplateDims == {<<1, 1>>, <<5, 2>>, <<4, 3>>}
Resamplings == {"clear", "sparse", "solid"}
CorrMaxima == {NaN, PosInf, F(0), F(69), F(70), F(100)}
PeakOffsets == {<<0, 0>>, <<1, 1>>, <<3, 2>>}

\* every template content of the single-template calls: corrupt, fully
\* transparent, one opaque pixel among several (whatever the resampling makes
\* of it), fully opaque (taken to stay fully opaque when resampled)
PipeTemplates ==
  {BadBase64Template, BadImageTemplate}
  \cup {TransparentTemplate(d[1], d[2]) : d \in TemplateDims}
  \cup {Template("image", d[1], d[2], 1, r, m, a) :
          d \in {x \in TemplateDims : x[1] * x[2] > 1}, r \in Resamplings,
          m \in CorrMaxima, a \in PeakOffsets}
  \cup {Template("image", d[1], d[2], d[1] * d[2], "solid", m, a) :
          d \in TemplateDims, m \in CorrMaxima, a \in PeakOffsets}

\* one template content per outcome of the pipeline, for the batches
BatchTemplates ==
  {BadBase64Template, BadImageTemplate, TransparentTemplate(4, 3),
   Template("image", 5, 2, 10, "solid", F(100), <<0, 0>>),
   Template("image", 1, 1, 1, "solid", NaN, <<1, 1>>),
   Template("image", 4, 3, 1, "sparse", F(69), <<3, 2>>)}

\* widths and heights of the images given to resize_screenshot: around both
\* limits (1414^2 < 2,000,000 < 1415^2), common screen sizes, and extremes
Sides ==
  {1, 600, 800, 1000, 1080, 1200, 1414, 1415, 1440, 1920, 1921, 2160, 2560,
   3840, 3841}
ImageSizes == {[w |-> w, h |-> h] : w \in Sides, h \in Sides}

\* the '+'-separated parts of the key_str arguments of key_combination, as
\* written by the caller
RawParts == {"Ctrl", " shift ", "alt", "cmd", "S", "s", "Enter", "foo", ""}
KeyStrings == UNION {[1..n -> RawParts] : n \in 1..MaxParts}

\* duration_ms arguments of wait: whole intervals and a fraction more
Durations ==
  {k * CHECK_INTERVAL + r : k \in 0..MaxIntervals, r \in {0, 1, 50, 99}}

\* pixel inputs of the compositor: fully opaque and fully transparent pixels
\* over channel values that include sums at an exact half (4, 40, 16)
ChannelValues == {0, 4, 16, 40, 128, 255}
Pixels ==
  {[r |-> r, g |-> g, b |-> b, a |-> a] :
     r \in ChannelValues, g \in ChannelValues, b \in ChannelValues,
     a \in {0, 255}}
\* images of every size up to MaxSide, filled with two pixels in turn
RgbaImages ==
  {[w |-> w, h |-> h,
    data |-> [k \in 1..(w * h) |-> IF k % 2 = 1 THEN p ELSE q]] :
     w \in 1..MaxSide, h \in 1..MaxSide, p \in Pixels,
     q \in {[r |-> 4, g |-> 40, b |-> 16, a |-> 0],
            [r |-> 255, g |-> 255, b |-> 255, a |-> 255]}}

Screenshot(kind, w, h) == [kind |-> kind, w |-> w, h |-> h]
Screenshots ==
  {Screenshot("bad_base64", 0, 0), Screenshot("bad_image", 0, 0),
   Screenshot("image", 4, 3), Screenshot("image", 5, 2)}

\* scale factors 1/4, 1/2, 1 and 3/2
Scales == {[n |-> 1, d |-> 4], [n |-> 1, d |-> 2], [n |-> 1, d |-> 1],
           [n |-> 3, d |-> 2]}

FileNames == <<"a.png", "b.png", "c.png", "d.png">>
NameLists(n) ==
  {[k \in 1..n |-> FileNames[k]], [k \in 1..n |-> FileNames[n + 1 - k]],
   [k \in 1..n |-> FileNames[1]]}

\* the entry point and its confidence threshold argument
Entries ==
  {[api |-> "batch", confidence_threshold |-> Some(F(70))],
   [api |-> "batch", confidence_threshold |-> Some(F(101))],
   [api |-> "hint", confidence_threshold |-> None],
   [api |-> "hint", confidence_threshold |-> Some(F(70))],
   [api |-> "hint", confidence_threshold |-> Some(F(101))]}

Call(e, shot, templates, s) ==
  [api |-> e.api, screenshot_base64 |-> shot, templates |-> templates,
   scale_factor |-> s, confidence_threshold |-> e.confidence_threshold]

TemplateLists(n) ==
  {[k \in 1..n |-> [image_data |-> data[k], file_name |-> names[k]]] :
     data \in [1..n -> BatchTemplates], names \in NameLists(n)}

PipeCalls ==
  {Call(e, shot, <<[image_data |-> t, file_name |-> FileNames[1]]>>, s) :
     e \in Entries, shot \in Screenshots, t \in PipeTemplates, s \in Scales}

BatchCalls ==
  {Call(e, shot, l, s) :
     e \in {x \in Entries : x.confidence_threshold \in {None, Some(F(70))}},
     shot \in Screenshots \ {Screenshot("image", 5, 2)},
     l \in UNION {TemplateLists(n) : n \in 0..MaxTemplates},
     s \in {x \in Scales : x.d = x.n * 2 \/ x.d = x.n}}

Calls == PipeCalls \cup BatchCalls

\* ------------------------------------------------------------ MatchResult
MatchResult(found, cx, cy, confidence, w, h, error, code) ==
  [found |-> found, center_x |-> cx, center_y |-> cy,
   confidence |-> confidence, template_width |-> w, template_height |-> h,
   error |-> error, error_code |-> code]

\* ----------------------------------------------------------- MatchErrorCode
\* enum MatchErrorCode, by the variants' names
MatchErrorCodes ==
  {"ScreenshotDecodeError", "TemplateBase64DecodeError",
   "TemplateImageDecodeError", "InsufficientOpacity", "NonFiniteConfidence",
   "TemplateTooLarge"}

\* mutant: only an undecodable screenshot is taken to be transient
IsPermanentButScreenshot(code) == code # "ScreenshotDecodeError"

\* MatchErrorCode::is_permanent
IsPermanent(code) ==
  CASE code = "ScreenshotDecodeError" -> FALSE
    [] code = "TemplateBase64DecodeError" -> TRUE
    [] code = "TemplateImageDecodeError" -> TRUE
    [] code = "InsufficientOpacity" -> TRUE
    [] code = "NonFiniteConfidence" -> TRUE
    [] code = "TemplateTooLarge" -> FALSE

\* MatchErrorCode::is_size_related
IsSizeRelated(code) == code = "TemplateTooLarge"

Image(w, h, opaque, px) == [w |-> w, h |-> h, opaque |-> opaque, px |-> px]
NoImage == Image(0, 0, 0, "none")
NoExtremes == [max_value |-> F(0), max_value_location |-> <<0, 0>>]

\* ------------------------------------------------------------- decoding
\* decode_base64_image: base64 first, then the image format
DecodeBase64Image(shot) ==
  CASE shot.kind = "bad_base64" ->
         [ok |-> FALSE, img |-> NoImage,
          err |-> <<"Image processing error: ", "Base64 decode error">>]
    [] shot.kind = "bad_image" ->
         [ok |-> FALSE, img |-> NoImage,
          err |-> <<"Image processing error: ", "Image decode error">>]
    [] OTHER ->
         [ok |-> TRUE, img |-> Image(shot.w, shot.h, shot.w * shot.h, "decoded"),
          err |-> <<>>]

\* screenshot.to_luma8()
ToLuma8(img) == Image(img.w, img.h, img.w * img.h, "gray")

\* the error entry every template gets when the screenshot does not decode
ScreenshotErrorResult(err) ==
  MatchResult(FALSE, None, None, None, 0, 0,
              Some(<<"Screenshot decode error: ">> \o err),
              Some("ScreenshotDecodeError"))

\* mutant: only the first template gets the error entry
ScreenshotErrorResultsFirst(templates, err) ==
  [k \in 1..Min(1, Len(templates)) |->
     <<templates[k].file_name, ScreenshotErrorResult(err)>>]

ScreenshotErrorResults(templates, err) ==
  [k \in 1..Len(templates) |->
     <<templates[k].file_name, ScreenshotErrorResult(err)>>]

\* mutant: both decode failures carry the image decode code
DecodeTemplateImageOneCode(t) ==
  CASE t.kind = "bad_base64" ->
         [ok |-> FALSE, img |-> NoImage, msg |-> <<"Base64 decode error">>,
          code |-> "TemplateImageDecodeError"]
    [] t.kind = "bad_image" ->
         [ok |-> FALSE, img |-> NoImage, msg |-> <<"Image decode error">>,
          code |-> "TemplateImageDecodeError"]
    [] OTHER ->
         [ok |-> TRUE, img |-> Image(t.w, t.h, t.opaque, "decoded"),
          msg |-> <<>>, code |-> ""]

\* decode_template_image
DecodeTemplateImage(t) ==
  CASE t.kind = "bad_base64" ->
         [ok |-> FALSE, img |-> NoImage, msg |-> <<"Base64 decode error">>,
          code |-> "TemplateBase64DecodeError"]
    [] t.kind = "bad_image" ->
         [ok |-> FALSE, img |-> NoImage, msg |-> <<"Image decode error">>,
          code |-> "TemplateImageDecodeError"]
    [] OTHER ->
         [ok |-> TRUE, img |-> Image(t.w, t.h, t.opaque, "decoded"),
          msg |-> <<>>, code |-> ""]

\* mutant: the message is reported without its code
DecodeErrorResultNoCode(msg, code) ==
  MatchResult(FALSE, None, None, None, 0, 0, Some(msg), None)

DecodeErrorResult(msg, code) ==
  MatchResult(FALSE, None, None, None, 0, 0, Some(msg), Some(code))

\* ---------------------------------------------------------- scale alignment
\* mutant: every scale factor other than 1.0 resizes
ShouldResizeUnlessOne(s) == s.n # s.d

\* scale_factor < 1.0
ShouldResize(s) == s.n < s.d

\* ((orig as f64) * scale_factor).round() as u32: round half away from zero
RoundScaled(orig, s) == (2 * orig * s.n + s.d) \div (2 * s.d)

\* mutant: no minimum size
ScaledDimUnclamped(orig, s) == RoundScaled(orig, s)

\* new_w.max(1)
ScaledDim(orig, s) == Max(RoundScaled(orig, s), 1)

\* resize_exact(new_w, new_h, Lanczos3): the filter's answer for this content.
\* An image without any alpha stays without any, and resampling to the same
\* size keeps every pixel.
ResizeExact(img, nw, nh, content) ==
  Image(nw, nh,
        CASE img.opaque = 0 -> 0
          [] nw = img.w /\ nh = img.h -> img.opaque
          [] content.resampled = "clear" -> 0
          [] content.resampled = "sparse" -> 1
          [] OTHER -> nw * nh,
        "resampled")

ScaleTemplate(img, s, content) ==
  IF ShouldResize(s)
  THEN ResizeExact(img, ScaledDim(img.w, s), ScaledDim(img.h, s), content)
  ELSE img

\* ------------------------------------------------------------ opacity gate
\* calculate_opacity_ratio, as the exact fraction opaque / total
CalculateOpacityRatio(img) ==
  IF img.w * img.h = 0 THEN [n |-> 0, d |-> 1]
  ELSE [n |-> img.opaque, d |-> img.w * img.h]

\* mutant: a ratio equal to the minimum is rejected too
BelowOrAtMinOpacity(ratio) ==
  ratio.n * MIN_OPACITY_RATIO.d <= MIN_OPACITY_RATIO.n * ratio.d

\* opacity_ratio < MIN_OPACITY_RATIO
BelowMinOpacity(ratio) ==
  ratio.n * MIN_OPACITY_RATIO.d < MIN_OPACITY_RATIO.n * ratio.d

\* mutant: the rejection carries a zero confidence, as the size guard's does
InsufficientOpacityResultZero(w, h) ==
  MatchResult(FALSE, None, None, Some(F(0)), w, h,
              Some(<<"Template has insufficient opacity">>),
              Some("InsufficientOpacity"))

InsufficientOpacityResult(w, h) ==
  MatchResult(FALSE, None, None, None, w, h,
              Some(<<"Template has insufficient opacity">>),
              Some("InsufficientOpacity"))

\* --------------------------------------------------------------- composite
\* convert_to_grayscale_with_alpha: same width and height, no alpha left
ConvertToGrayscaleWithAlpha(img) == Image(img.w, img.h, img.w * img.h, "gray")

\* f32 values x with 0 <= x < 256 that are multiples of 2^-27, as two limbs:
\* x = (hi * 2^15 + lo) * 2^-27 with 0 <= lo < 2^15
RECURSIVE Pow2(_)
Pow2(n) == IF n = 0 THEN 1 ELSE 2 * Pow2(n - 1)
RECURSIVE BitLen(_)
BitLen(n) == IF n = 0 THEN 0 ELSE 1 + BitLen(n \div 2)
Limb == Pow2(15)
Fixed(hi, lo) == [hi |-> hi + lo \div Limb, lo |-> lo % Limb]

\* the nearest f32 (24 significant bits, ties to even) of an exact result
RoundF32(x) ==
  IF x.hi < Pow2(9) THEN x
  ELSE LET k == BitLen(x.hi) - 9
           q == x.lo \div Pow2(k)
           rem == x.lo % Pow2(k)
           up == IF rem > Pow2(k - 1) \/ (rem = Pow2(k - 1) /\ q % 2 = 1)
                 THEN 1 ELSE 0
       IN Fixed(x.hi, (q + up) * Pow2(k))

\* weight * channel in f32, weight = K * 2^-27 and channel an integer 0..255
MulF32(K, channel) ==
  RoundF32(Fixed((K \div Limb) * channel, (K % Limb) * channel))
AddF32(x, y) == RoundF32(Fixed(x.hi + y.hi, x.lo + y.lo))
\* x.round() as u8: halves away from zero, saturating
RoundAsU8(x) == Min((x.hi + Pow2(11)) \div Pow2(12), 255)

\* the f32 literals 0.299, 0.587 and 0.114 in units of 2^-27
\* (0.299f32 = 10032775 * 2^-25, 0.587f32 = 9848226 * 2^-24,
\*  0.114f32 = 15300821 * 2^-27)
WeightR == 40131100
WeightG == 78785808
WeightB == 15300821

Rgba(r, g, b, a) == [r |-> r, g |-> g, b |-> b, a |-> a]

\* mutant: a transparent pixel keeps its colour
CompositeChannelKept(c, a) == c

\* pixel[n] as f32 * alpha + 255.0 * (1.0 - alpha) with alpha = a / 255.0,
\* for the two alpha values the inputs carry (alpha is exactly 0.0 or 1.0)
CompositeChannel(c, a) ==
  CASE a = 255 -> c
    [] a = 0 -> 255

\* the closure of GrayImage::from_fn
GrayOfPixel(p) ==
  RoundAsU8(
    AddF32(AddF32(MulF32(WeightR, CompositeChannel(p.r, p.a)),
                  MulF32(WeightG, CompositeChannel(p.g, p.a))),
           MulF32(WeightB, CompositeChannel(p.b, p.a))))

\* convert_to_grayscale_with_alpha on an image given pixel by pixel, row-major
GrayImageFromFn(rgba) ==
  [w |-> rgba.w, h |-> rgba.h,
   data |-> [k \in 1..Len(rgba.data) |-> GrayOfPixel(rgba.data[k])]]

\* --------------------------------------------------------- resize_screenshot
\* p1 / q1 <= p2 / q2 for naturals with q1, q2 > 0, without forming products
RECURSIVE RatLeq(_, _, _, _)
RatLeq(p1, q1, p2, q2) ==
  IF p1 \div q1 # p2 \div q2 THEN p1 \div q1 < p2 \div q2
  ELSE IF p1 % q1 = 0 THEN TRUE
  ELSE IF p2 % q2 = 0 THEN FALSE
  ELSE RatLeq(q2, p2 % q2, q1, p1 % q1)

\* an f64 scale as the real number it stands for: n / d, or sqrt(n / d)
Ratio(n, d) == [kind |-> "ratio", n |-> n, d |-> d]
Root(n, d) == [kind |-> "sqrt", n |-> n, d |-> d]
One == Ratio(1, 1)

\* x <= y
ScaleLeq(x, y) ==
  CASE x.kind = "ratio" /\ y.kind = "sqrt" ->
         RatLeq(x.n * x.n, x.d * x.d, y.n, y.d)
    [] x.kind = "sqrt" /\ y.kind = "ratio" ->
         RatLeq(x.n, x.d, y.n * y.n, y.d * y.d)
    [] OTHER -> RatLeq(x.n, x.d, y.n, y.d)
\* x.min(y)
ScaleMin(x, y) == IF ScaleLeq(x, y) THEN x ELSE y
\* x < 1.0
BelowOne(x) == ~ScaleLeq(One, x)

\* MAX_LONG_EDGE as f64 / long_edge as f64
LongEdgeScale(w, h) == Ratio(MAX_LONG_EDGE, Max(w, h))
\* (MAX_TOTAL_PIXELS as f64 / total_pixels as f64).sqrt(); the sizes given
\* keep original_width * original_height inside u32
TotalPixelsScale(w, h) == Root(MAX_TOTAL_PIXELS, w * h)

\* mutant: the long edge is not taken into account
ScaleFactorPixelsOnly(w, h) == ScaleMin(TotalPixelsScale(w, h), One)

\* long_edge_scale.min(total_pixels_scale).min(1.0)
ScaleFactor(w, h) ==
  ScaleMin(ScaleMin(LongEdgeScale(w, h), TotalPixelsScale(w, h)), One)

\* the largest r in lo..hi with r - 1/2 <= orig * sqrt(n / d)
RECURSIVE RoundRoot(_, _, _, _, _)
RoundRoot(lo, hi, orig, n, d) ==
  IF lo >= hi THEN lo
  ELSE LET mid == (lo + hi + 1) \div 2 IN
       IF RatLeq((2 * mid - 1) * (2 * mid - 1), 4 * orig * orig, n, d)
       THEN RoundRoot(mid, hi, orig, n, d)
       ELSE RoundRoot(lo, mid - 1, orig, n, d)

\* (orig as f64 * scale_factor).round() as u32 for a scale of at most 1.0:
\* the integer nearest to the product, and, where the product is exactly at a
\* half, either neighbour (the f64 product may fall on either side of it)
RoundedScaled(orig, scale) ==
  IF scale.kind = "ratio"
  THEN LET up == (2 * orig * scale.n + scale.d) \div (2 * scale.d) IN
       IF (2 * orig * scale.n + scale.d) % (2 * scale.d) = 0
       THEN {up - 1, up} ELSE {up}
  ELSE LET up == RoundRoot(0, orig, orig, scale.n, scale.d) IN
       IF up > 0 /\ RatLeq(scale.n, scale.d,
                           (2 * up - 1) * (2 * up - 1), 4 * orig * orig)
       THEN {up - 1, up} ELSE {up}

ResizeResult(ow, oh, rw, rh, scale, final) ==
  [original_width |-> ow, original_height |-> oh, resized_width |-> rw,
   resized_height |-> rh, scale_factor |-> scale, final_image |-> final]

\* -------------------------------------------------------------- size guard
\* mutant: rejected only when both dimensions exceed the screenshot's
TemplateTooLargeBoth(tw, th, gray) == tw > gray.w /\ th > gray.h

TemplateTooLarge(tw, th, gray) == tw > gray.w \/ th > gray.h

TemplateTooLargeResult(w, h) ==
  MatchResult(FALSE, None, None, Some(F(0)), w, h,
              Some(<<"Template is larger than screenshot after scaling">>),
              Some("TemplateTooLarge"))

\* ------------------------------------------------------------- correlation
\* match_template + find_extremes: the surface has (W - w + 1) x (H - h + 1)
\* entries; the crate's maximum and its location for this content
FindExtremes(gray, tgray, content) ==
  [max_value |-> content.nccMax,
   max_value_location |->
     <<Min(content.nccAt[1], gray.w - tgray.w),
       Min(content.nccAt[2], gray.h - tgray.h)>>]

\* mutant: only NaN is caught
IsNaNOnly(confidence) == confidence.cls = "nan"

\* !confidence.is_finite()
NonFinite(confidence) == ~IsFinite(confidence)

NonFiniteConfidenceResult(w, h) ==
  MatchResult(FALSE, None, None, None, w, h,
              Some(<<"Template matching produced non-finite confidence value">>),
              Some("NonFiniteConfidence"))

\* ---------------------------------------------------------- classification
\* mutant: a confidence equal to the threshold is not a match
ExceedsThreshold(confidence, threshold) ==
  Ge(confidence, threshold) /\ confidence # threshold

\* confidence >= confidence_threshold
MeetsThreshold(confidence, threshold) == Ge(confidence, threshold)

\* mutant: the far edge of the matched region instead of its centre
CenterCoordinateFarEdge(match, dim) == match + dim

\* match_x as i32 + (template_width / 2) as i32
CenterCoordinate(match, dim) == match + dim \div 2

FoundResult(extremes, w, h) ==
  MatchResult(TRUE,
              Some(CenterCoordinate(extremes.max_value_location[1], w)),
              Some(CenterCoordinate(extremes.max_value_location[2], h)),
              Some(extremes.max_value), w, h, None, None)

\* mutant: a miss is reported without its confidence
NotFoundResultBare(confidence, w, h) ==
  MatchResult(FALSE, None, None, None, w, h, None, None)

NotFoundResult(confidence, w, h) ==
  MatchResult(FALSE, None, None, Some(confidence), w, h, None, None)

Classify(extremes, threshold, w, h) ==
  IF MeetsThreshold(extremes.max_value, threshold)
  THEN FoundResult(extremes, w, h)
  ELSE NotFoundResult(extremes.max_value, w, h)

\* ------------------------------------------------------------------ state
VARIABLES
  pc,               \* "idle", "screenshot", "template", "collect", "done"
  call,             \* the arguments of the call in progress
  threshold,        \* confidence_threshold as match_templates_batch gets it
  screenshot_gray,  \* the decoded grayscale screenshot
  i,                \* position of the template iterator, from 1
  stage,            \* stage the current template's pipeline is about to run
  template,         \* template_original / template / template_gray
  extremes,         \* find_extremes(&result)
  results,          \* the (file_name, MatchResult) pairs collected so far
  out,              \* what the call returned
  log,              \* the stages run in this call, in order, with their slot
  called_before,    \* some call has returned before the current one
  stop_requested,   \* AppState.stop_requested
  stopped_in_run    \* a stop request came while a template of this call ran

\* the compositor run on its own
VARIABLES
  rgba,             \* the image given to convert_to_grayscale_with_alpha
  gray_image        \* the GrayImage it returned

gray_vars == <<rgba, gray_image>>

\* the wait command
VARIABLES
  wait_pc,          \* "idle", "loop", "sleep", "done"
  total_duration,   \* Duration::from_millis(duration_ms)
  elapsed,          \* the sum of the sleeps so far
  sleep_time,       \* the length of the latest sleep
  wait_result,      \* what wait returned
  checks,           \* how many times this wait has read the stop flag
  sleeps,           \* how many times it has slept
  last_check,       \* what its latest read of the stop flag gave
  stop_during_wait  \* a stop request came before its duration had elapsed

wait_locals == <<wait_pc, total_duration, elapsed, sleep_time, wait_result,
                 checks, sleeps, last_check>>
wait_vars == <<wait_locals, stop_during_wait>>

\* resize_screenshot
VARIABLES
  resize_image,     \* the dimensions of the image given to resize_screenshot
  resize_result     \* Ok(ResizeResult) as <<result>>, <<>> before the return

resize_vars == <<resize_image, resize_result>>

\* register_emergency_stop
VARIABLES
  HOTKEY_REGISTERED,   \* the static AtomicBool
  HOTKEY_ID,           \* the static AtomicU32
  hotkey_pc,           \* where each calling thread is inside the function
  hotkeys,             \* hotkeys registered with the system and kept alive
  listeners,           \* listener threads spawned so far
  register_calls,      \* calls made so far
  register_failed      \* some call has returned through a failure branch

hotkey_vars ==
  <<HOTKEY_REGISTERED, HOTKEY_ID, hotkey_pc, hotkeys, listeners,
    register_calls, register_failed>>

\* key_combination
VARIABLES
  key_pc,        \* "out", "press", "release", "returned"
  key_str,       \* the argument, split at '+'
  modifiers,     \* Vec<Key> of the modifiers parsed
  main_key,      \* Option<Key>
  key_idx,       \* position of the press or release loop
  key_events,    \* the key events enigo has sent, in order
  key_result     \* "Ok", or the kind of the error returned

key_vars ==
  <<key_pc, key_str, modifiers, main_key, key_idx, key_events, key_result>>

\* the components a stop request does not concern
quiet == <<gray_vars, resize_vars, hotkey_vars, key_vars>>

\* the state of the other components
components == <<quiet, wait_vars>>

\* the state of the template-matching engine and of the stop flag
engine == <<pc, call, threshold, screenshot_gray, i, stage, template, extremes,
            results, out, log, called_before, stop_requested, stopped_in_run>>

vars == <<engine, components>>

\* what no step of a call writes
outside == <<called_before, stop_requested, stopped_in_run, components>>

NoPixels == [w |-> 0, h |-> 0, data |-> <<>>]

InitWait ==
  /\ wait_pc = "idle"
  /\ total_duration = 0
  /\ elapsed = 0
  /\ sleep_time = 0
  /\ wait_result = None
  /\ checks = 0
  /\ sleeps = 0
  /\ last_check = None
  /\ stop_during_wait = FALSE

NoSize == [w |-> 0, h |-> 0]

InitKey ==
  /\ key_pc = "out"
  /\ key_str = <<>>
  /\ modifiers = <<>>
  /\ main_key = None
  /\ key_idx = 0
  /\ key_events = <<>>
  /\ key_result = ""

Threads == 1..MaxThreads
\* hotkey.id() of Shift + Escape, some non-zero u32
ShiftEscapeId == 1

InitComponents ==
  /\ rgba = NoPixels
  /\ gray_image = NoPixels
  /\ InitWait
  /\ resize_image = NoSize
  /\ resize_result = None
  /\ HOTKEY_REGISTERED = FALSE
  /\ HOTKEY_ID = 0
  /\ hotkey_pc = [t \in Threads |-> "out"]
  /\ hotkeys = 0
  /\ listeners = 0
  /\ register_calls = 0
  /\ register_failed = FALSE
  /\ InitKey

NoCall ==
  Call([api |-> "batch", confidence_threshold |-> None],
       Screenshot("bad_base64", 0, 0), <<>>, [n |-> 1, d |-> 1])

Init ==
  /\ pc = "idle"
  /\ call = NoCall
  /\ threshold = F(DefaultThreshold)
  /\ screenshot_gray = NoImage
  /\ i = 1
  /\ stage = "Decode"
  /\ template = NoImage
  /\ extremes = NoExtremes
  /\ results = <<>>
  /\ out = <<>>
  /\ log = <<>>
  /\ called_before = FALSE
  /\ stop_requested = FALSE
  /\ stopped_in_run = FALSE
  /\ InitComponents

Ran(slot, name) == [slot |-> slot, stage |-> name]

\* mutant: every closure call sees the first template
TemplateAtFirst(templates, k) == templates[1]

\* the closure argument of templates.into_iter().map(..)
TemplateAt(templates, k) == templates[k]

Current == TemplateAt(call.templates, i)
Content == Current.image_data

\* mutant: the template iterator starts without the screenshot being decoded
EnterAtTemplates(c, thr) ==
  /\ call' = c
  /\ threshold' = thr
  /\ pc' = (IF Len(c.templates) = 0 THEN "collect" ELSE "template")
  /\ screenshot_gray' = NoImage
  /\ i' = 1
  /\ stage' = "Decode"
  /\ template' = NoImage
  /\ extremes' = NoExtremes
  /\ results' = <<>>
  /\ out' = <<>>
  /\ log' = <<>>
  /\ stopped_in_run' = FALSE
  /\ UNCHANGED <<called_before, stop_requested, components>>

\* mutant: the engine remembers that it has been called and from then on works
\* with the default threshold
EnterRemembering(c, thr) ==
  /\ call' = c
  /\ threshold' = (IF called_before THEN F(DefaultThreshold) ELSE thr)
  /\ pc' = "screenshot"
  /\ screenshot_gray' = NoImage
  /\ i' = 1
  /\ stage' = "Decode"
  /\ template' = NoImage
  /\ extremes' = NoExtremes
  /\ results' = <<>>
  /\ out' = <<>>
  /\ log' = <<>>
  /\ stopped_in_run' = FALSE
  /\ UNCHANGED <<called_before, stop_requested, components>>

\* entry of match_templates_batch with its arguments
Enter(c, thr) ==
  /\ call' = c
  /\ threshold' = thr
  /\ pc' = "screenshot"
  /\ screenshot_gray' = NoImage
  /\ i' = 1
  /\ stage' = "Decode"
  /\ template' = NoImage
  /\ extremes' = NoExtremes
  /\ results' = <<>>
  /\ out' = <<>>
  /\ log' = <<>>
  /\ stopped_in_run' = FALSE
  /\ UNCHANGED <<called_before, stop_requested, components>>

\* a direct call of match_templates_batch
MatchTemplatesBatch ==
  /\ pc = "idle"
  /\ \E c \in Calls :
       /\ c.api = "batch"
       /\ Enter(c, c.confidence_threshold[1])

\* the command match_hint_images, up to its call of match_templates_batch
MatchHintImages ==
  /\ pc = "idle"
  /\ \E c \in Calls :
       /\ c.api = "hint"
       /\ Enter(c, UnwrapOr(c.confidence_threshold, F(DefaultThreshold)))

\* mutant: the iterator stops one template early
AfterSlotEarly(k, n) == IF k + 1 >= n THEN "collect" ELSE "template"

\* where the iterator goes after k entries have been produced
AfterSlot(k, n) == IF k >= n THEN "collect" ELSE "template"

\* decode the screenshot once; on failure every template gets the error entry
DecodeScreenshot ==
  /\ pc = "screenshot"
  /\ log' = Append(log, Ran(0, "DecodeScreenshot"))
  /\ LET d == DecodeBase64Image(call.screenshot_base64) IN
       IF d.ok
       THEN /\ screenshot_gray' = ToLuma8(d.img)
            /\ results' = results
            /\ pc' = AfterSlot(0, Len(call.templates))
       ELSE /\ screenshot_gray' = screenshot_gray
            /\ results' = ScreenshotErrorResults(call.templates, d.err)
            /\ pc' = "collect"
  /\ UNCHANGED <<outside, call, threshold, i, stage, template, extremes, out>>

\* the pipeline of template i ends with result r: (file_name, result) is the
\* closure's value and the iterator moves on
\* mutant: a pipeline that finds the stop flag set reports a bare miss
FinishUnlessStopped(r) ==
  /\ results' =
       Append(results,
              <<Current.file_name,
                IF stop_requested
                THEN MatchResult(FALSE, None, None, None, 0, 0, None, None)
                ELSE r>>)
  /\ i' = i + 1
  /\ stage' = "Decode"
  /\ pc' = AfterSlot(i, Len(call.templates))

Finish(r) ==
  /\ results' = Append(results, <<Current.file_name, r>>)
  /\ i' = i + 1
  /\ stage' = "Decode"
  /\ pc' = AfterSlot(i, Len(call.templates))

\* mutant: control passes from the opacity gate straight to the size guard
ContinuePastComposite(next) ==
  /\ stage' = (IF next = "Composite" THEN "SizeGuard" ELSE next)
  /\ UNCHANGED <<pc, i, results>>

\* the pipeline of template i goes on to its next statement
Continue(next) ==
  /\ stage' = next
  /\ UNCHANGED <<pc, i, results>>

AtStage(name) ==
  /\ pc = "template"
  /\ stage = name
  /\ log' = Append(log, Ran(i, name))

Decode ==
  /\ AtStage("Decode")
  /\ LET d == DecodeTemplateImage(Content) IN
       IF d.ok
       THEN template' = d.img /\ Continue("ScaleAlign")
       ELSE template' = NoImage /\ Finish(DecodeErrorResult(d.msg, d.code))
  /\ extremes' = NoExtremes
  /\ UNCHANGED <<outside, call, threshold, screenshot_gray, out>>

ScaleAlign ==
  /\ AtStage("ScaleAlign")
  /\ template' = ScaleTemplate(template, call.scale_factor, Content)
  /\ Continue("OpacityGate")
  /\ UNCHANGED <<outside, call, threshold, screenshot_gray, extremes, out>>

\* mutant: a template that will not fit is left to the size guard
OpacityGateIfFits ==
  /\ AtStage("OpacityGate")
  /\ IF /\ BelowMinOpacity(CalculateOpacityRatio(template))
        /\ ~TemplateTooLarge(template.w, template.h, screenshot_gray)
     THEN Finish(InsufficientOpacityResult(template.w, template.h))
     ELSE Continue("Composite")
  /\ UNCHANGED <<outside, call, threshold, screenshot_gray, template, extremes,
                 out>>

OpacityGate ==
  /\ AtStage("OpacityGate")
  /\ IF BelowMinOpacity(CalculateOpacityRatio(template))
     THEN Finish(InsufficientOpacityResult(template.w, template.h))
     ELSE Continue("Composite")
  /\ UNCHANGED <<outside, call, threshold, screenshot_gray, template, extremes,
                 out>>

\* mutant: the template is composited into the screenshot's buffer
CompositeOntoScreenshot ==
  /\ AtStage("Composite")
  /\ template' = ConvertToGrayscaleWithAlpha(template)
  /\ screenshot_gray' = ConvertToGrayscaleWithAlpha(template)
  /\ Continue("SizeGuard")
  /\ UNCHANGED <<outside, call, threshold, extremes, out>>

Composite ==
  /\ AtStage("Composite")
  /\ template' = ConvertToGrayscaleWithAlpha(template)
  /\ Continue("SizeGuard")
  /\ UNCHANGED <<outside, call, threshold, screenshot_gray, extremes, out>>

SizeGuard ==
  /\ AtStage("SizeGuard")
  /\ IF TemplateTooLarge(template.w, template.h, screenshot_gray)
     THEN Finish(TemplateTooLargeResult(template.w, template.h))
     ELSE Continue("Correlate")
  /\ UNCHANGED <<outside, call, threshold, screenshot_gray, template, extremes,
                 out>>

Correlate ==
  /\ AtStage("Correlate")
  /\ LET e == FindExtremes(screenshot_gray, template, Content) IN
       /\ extremes' = e
       /\ IF NonFinite(e.max_value)
          THEN Finish(NonFiniteConfidenceResult(template.w, template.h))
          ELSE Continue("Classify")
  /\ UNCHANGED <<outside, call, threshold, screenshot_gray, template, out>>

ClassifyMatch ==
  /\ AtStage("Classify")
  /\ Finish(Classify(extremes, threshold, template.w, template.h))
  /\ UNCHANGED <<outside, call, threshold, screenshot_gray, template, extremes,
                 out>>

\* match_hint_images: .enumerate().map(|(index, (file_name, match_result))| ..)
HintImageMatchResults(batch_results) ==
  [k \in 1..Len(batch_results) |->
     [index |-> k - 1, file_name |-> batch_results[k][1],
      match_result |-> batch_results[k][2]]]

\* .collect() and return of match_templates_batch to a direct caller
ReturnBatch ==
  /\ pc = "collect"
  /\ call.api = "batch"
  /\ out' = results
  /\ pc' = "done"
  /\ UNCHANGED <<outside, call, threshold, screenshot_gray, i, stage, template,
                 extremes, results, log>>

\* return of match_hint_images
ReturnHint ==
  /\ pc = "collect"
  /\ call.api = "hint"
  /\ out' = HintImageMatchResults(results)
  /\ pc' = "done"
  /\ UNCHANGED <<outside, call, threshold, screenshot_gray, i, stage, template,
                 extremes, results, log>>

\* the caller has taken the returned list; everything the call owned is dropped
Release ==
  /\ pc = "done"
  /\ pc' = "idle"
  /\ call' = NoCall
  /\ threshold' = F(DefaultThreshold)
  /\ screenshot_gray' = NoImage
  /\ i' = 1
  /\ stage' = "Decode"
  /\ template' = NoImage
  /\ extremes' = NoExtremes
  /\ results' = <<>>
  /\ out' = <<>>
  /\ log' = <<>>
  /\ called_before' = TRUE
  /\ stopped_in_run' = FALSE
  /\ UNCHANGED <<stop_requested, components>>

Next ==
  \/ MatchTemplatesBatch
  \/ MatchHintImages
  \/ DecodeScreenshot
  \/ Decode
  \/ ScaleAlign
  \/ OpacityGate
  \/ Composite
  \/ SizeGuard
  \/ Correlate
  \/ ClassifyMatch
  \/ ReturnBatch
  \/ ReturnHint
  \/ Release

Spec == Init /\ [][Next]_vars

\* ------------------------------------------------- the stop flag commands
\* AppState::request_stop, from the request_stop command or from the
\* emergency hotkey's listener thread, at any moment
RequestStop ==
  /\ stop_requested' = TRUE
  /\ stopped_in_run' = (stopped_in_run \/ pc = "template")
  /\ stop_during_wait' =
       (stop_during_wait
          \/ (wait_pc \in {"loop", "sleep"} /\ elapsed < total_duration))
  /\ UNCHANGED <<pc, call, threshold, screenshot_gray, i, stage, template,
                 extremes, results, out, log, called_before, quiet,
                 wait_locals>>

\* AppState::clear_stop, from the clear_stop command
ClearStop ==
  /\ stop_requested' = FALSE
  /\ UNCHANGED <<pc, call, threshold, screenshot_gray, i, stage, template,
                 extremes, results, out, log, called_before, stopped_in_run,
                 components>>

\* the engine with the stop commands arriving on other threads
NextControl ==
  \/ Next
  \/ RequestStop
  \/ ClearStop

ControlSpec == Init /\ [][NextControl]_vars

\* ------------------------------------------------ the compositor on its own
\* a call of convert_to_grayscale_with_alpha
ConvertToGrayscale ==
  /\ rgba = NoPixels
  /\ \E img \in RgbaImages :
       /\ rgba' = img
       /\ gray_image' = GrayImageFromFn(img)
  /\ UNCHANGED <<engine, wait_vars, resize_vars, hotkey_vars, key_vars>>

\* the caller drops both images
DropGray ==
  /\ rgba # NoPixels
  /\ rgba' = NoPixels
  /\ gray_image' = NoPixels
  /\ UNCHANGED <<engine, wait_vars, resize_vars, hotkey_vars, key_vars>>

NextComposite ==
  \/ ConvertToGrayscale
  \/ DropGray

CompositeSpec == Init /\ [][NextComposite]_vars

\* ---------------------------------------------------------- the wait command
\* mutant: the flag is never found set
IsStopRequestedNever == FALSE

\* AppState::is_stop_requested
IsStopRequested == stop_requested

\* mutant: every sleep lasts a whole check interval
SleepTimeWhole(total, done) == CHECK_INTERVAL

\* check_interval.min(total_duration - elapsed)
SleepTime(total, done) == Min(CHECK_INTERVAL, total - done)

\* entry of wait: the three let statements
Wait ==
  /\ wait_pc = "idle"
  /\ \E duration_ms \in Durations : total_duration' = duration_ms
  /\ elapsed' = 0
  /\ wait_pc' = "loop"
  /\ sleep_time' = 0
  /\ wait_result' = None
  /\ checks' = 0
  /\ sleeps' = 0
  /\ last_check' = None
  /\ stop_during_wait' = FALSE
  /\ UNCHANGED <<engine, quiet>>

\* the loop condition and, inside the loop, the check of the stop flag
WaitLoop ==
  /\ wait_pc = "loop"
  /\ IF elapsed < total_duration
     THEN /\ checks' = checks + 1
          /\ last_check' = Some(IsStopRequested)
          /\ IF IsStopRequested
             THEN wait_result' = Some(FALSE) /\ wait_pc' = "done"
             ELSE wait_result' = wait_result /\ wait_pc' = "sleep"
     ELSE /\ wait_result' = Some(TRUE)
          /\ wait_pc' = "done"
          /\ UNCHANGED <<checks, last_check>>
  /\ UNCHANGED <<total_duration, elapsed, sleep_time, sleeps,
                 stop_during_wait, engine, quiet>>

\* tokio::time::sleep(sleep_time).await and elapsed += sleep_time
WaitSleep ==
  /\ wait_pc = "sleep"
  /\ sleep_time' = SleepTime(total_duration, elapsed)
  /\ elapsed' = elapsed + sleep_time'
  /\ sleeps' = sleeps + 1
  /\ wait_pc' = "loop"
  /\ UNCHANGED <<total_duration, wait_result, checks, last_check,
                 stop_during_wait, engine, quiet>>

\* the caller has the result; the wait's locals are gone
WaitReturned ==
  /\ wait_pc = "done"
  /\ wait_pc' = "idle"
  /\ total_duration' = 0
  /\ elapsed' = 0
  /\ sleep_time' = 0
  /\ wait_result' = None
  /\ checks' = 0
  /\ sleeps' = 0
  /\ last_check' = None
  /\ stop_during_wait' = FALSE
  /\ UNCHANGED <<engine, quiet>>

WaitStep ==
  \/ WaitLoop
  \/ WaitSleep

\* a wait with the stop commands arriving on other threads
NextWait ==
  \/ Wait
  \/ WaitLoop
  \/ WaitSleep
  \/ WaitReturned
  \/ RequestStop
  \/ ClearStop

WaitSpec == Init /\ [][NextWait]_vars

\* the runtime resumes the wait's future after each sleep
WaitFairSpec == WaitSpec /\ WF_vars(WaitStep)

\* --------------------------------------------------------- resize_screenshot
\* a call of resize_screenshot up to its Ok return
ResizeScreenshot ==
  /\ resize_image = NoSize
  /\ \E image \in ImageSizes :
       LET scale_factor == ScaleFactor(image.w, image.h) IN
       \E resized_width \in RoundedScaled(image.w, scale_factor),
          resized_height \in RoundedScaled(image.h, scale_factor) :
         /\ resize_image' = image
         /\ resize_result' =
              Some(ResizeResult(
                     image.w, image.h, resized_width, resized_height,
                     scale_factor,
                     IF BelowOne(scale_factor)
                     THEN [w |-> resized_width, h |-> resized_height]
                     ELSE image))
  /\ UNCHANGED <<engine, gray_vars, wait_vars, hotkey_vars, key_vars>>

\* the caller has taken the result
DropResize ==
  /\ resize_image # NoSize
  /\ resize_image' = NoSize
  /\ resize_result' = None
  /\ UNCHANGED <<engine, gray_vars, wait_vars, hotkey_vars, key_vars>>

NextResize ==
  \/ ResizeScreenshot
  \/ DropResize

ResizeSpec == Init /\ [][NextResize]_vars

\* --------------------------------------------------- register_emergency_stop
\* mutant: the guard lets every call through
GuardPassesAlways(flag) == TRUE

\* compare_exchange(false, true, SeqCst, SeqCst).is_ok()
GuardPasses(flag) == flag = FALSE

HotkeyRest == <<engine, gray_vars, wait_vars, resize_vars, key_vars>>

\* a thread calls the function and executes the guard
RegisterEmergencyStop(t) ==
  /\ hotkey_pc[t] = "out"
  /\ register_calls < MaxRegisterCalls
  /\ register_calls' = register_calls + 1
  /\ IF GuardPasses(HOTKEY_REGISTERED)
     THEN /\ HOTKEY_REGISTERED' = TRUE
          /\ hotkey_pc' = [hotkey_pc EXCEPT ![t] = "manager"]
     ELSE UNCHANGED <<HOTKEY_REGISTERED, hotkey_pc>>
  /\ UNCHANGED <<HOTKEY_ID, hotkeys, listeners, register_failed, HotkeyRest>>

\* "Reset flag on failure" and return
FailRegistration(t) ==
  /\ HOTKEY_REGISTERED' = FALSE
  /\ hotkey_pc' = [hotkey_pc EXCEPT ![t] = "out"]
  /\ register_failed' = TRUE

\* GlobalHotKeyManager::new()
NewManager(t) ==
  /\ hotkey_pc[t] = "manager"
  /\ \E ok \in BOOLEAN :
       IF ok
       THEN /\ hotkey_pc' = [hotkey_pc EXCEPT ![t] = "register"]
            /\ UNCHANGED <<HOTKEY_REGISTERED, register_failed>>
       ELSE FailRegistration(t)
  /\ UNCHANGED <<HOTKEY_ID, hotkeys, listeners, register_calls, HotkeyRest>>

\* manager.register(hotkey)
RegisterHotkey(t) ==
  /\ hotkey_pc[t] = "register"
  /\ \E ok \in BOOLEAN :
       IF ok
       THEN /\ hotkey_pc' = [hotkey_pc EXCEPT ![t] = "spawn"]
            /\ hotkeys' = hotkeys + 1
            /\ UNCHANGED <<HOTKEY_REGISTERED, register_failed>>
       ELSE /\ FailRegistration(t)
            /\ UNCHANGED hotkeys
  /\ UNCHANGED <<HOTKEY_ID, listeners, register_calls, HotkeyRest>>

\* HOTKEY_ID.store, mem::forget(manager), thread::spawn, return
SpawnListener(t) ==
  /\ hotkey_pc[t] = "spawn"
  /\ HOTKEY_ID' = ShiftEscapeId
  /\ listeners' = listeners + 1
  /\ hotkey_pc' = [hotkey_pc EXCEPT ![t] = "out"]
  /\ UNCHANGED <<HOTKEY_REGISTERED, hotkeys, register_calls, register_failed,
                 HotkeyRest>>

\* the listener thread receives a Pressed event with the expected id
HotkeyPressed ==
  /\ listeners > 0
  /\ ~stop_requested
  /\ RequestStop

NextHotkey ==
  \/ \E t \in Threads : RegisterEmergencyStop(t)
  \/ \E t \in Threads : NewManager(t)
  \/ \E t \in Threads : RegisterHotkey(t)
  \/ \E t \in Threads : SpawnListener(t)
  \/ HotkeyPressed

HotkeySpec == Init /\ [][NextHotkey]_vars

\* ------------------------------------------------------------ key_combination
\* s.trim() and .to_lowercase() on the spellings of RawParts
Trim(part) == IF part = " shift " THEN "shift" ELSE part
ToLowercase(part) ==
  CASE part = "Ctrl" -> "ctrl"
    [] part = "S" -> "s"
    [] part = "Enter" -> "enter"
    [] OTHER -> part

\* key_str.split('+').map(|s| s.trim().to_lowercase()).collect()
Parts(str) == [k \in 1..Len(str) |-> ToLowercase(Trim(str[k]))]

\* is_modifier
IsModifier(part) ==
  ToLowercase(part) \in
    {"ctrl", "control", "alt", "option", "shift", "cmd", "command", "meta",
     "super", "win"}

\* the one-byte strings among the parts
SingleCharacters == {"s", "S"}

\* enigo::Key: a named key, or Unicode(c)
Key(name) == [name |-> name, c |-> ""]
Unicode(c) == [name |-> "Unicode", c |-> c]

\* parse_key: Ok(key) as <<key>>, Err("Unknown key: ..") as <<>>
ParseKey(part) ==
  LET name == ToLowercase(part) IN
  CASE name \in {"ctrl", "control"} -> Some(Key("Control"))
    [] name \in {"alt", "option"} -> Some(Key("Alt"))
    [] name = "shift" -> Some(Key("Shift"))
    [] name \in {"cmd", "command", "meta", "super", "win"} -> Some(Key("Meta"))
    [] name \in {"enter", "return"} -> Some(Key("Return"))
    [] name = "tab" -> Some(Key("Tab"))
    [] name = "space" -> Some(Key("Space"))
    [] name \in {"escape", "esc"} -> Some(Key("Escape"))
    [] name \in SingleCharacters -> Some(Unicode(name))
    [] OTHER -> None

\* the loop of lines 33-40 over parts[from..], started with the given
\* modifiers and main key: stops with Err at the first part parse_key rejects
RECURSIVE ParseParts(_, _, _, _)
ParseParts(parts, from, mods, main) ==
  IF from > Len(parts) THEN [ok |-> TRUE, modifiers |-> mods, main_key |-> main]
  ELSE IF ParseKey(parts[from]) = None
  THEN [ok |-> FALSE, modifiers |-> mods, main_key |-> main]
  ELSE IF IsModifier(parts[from])
  THEN ParseParts(parts, from + 1, Append(mods, ParseKey(parts[from])[1]), main)
  ELSE ParseParts(parts, from + 1, mods, ParseKey(parts[from]))

KeyEvent(key, direction) == [key |-> key, direction |-> direction]

Reverse(seq) == [k \in 1..Len(seq) |-> seq[Len(seq) + 1 - k]]

\* mutant: the modifiers are released in the order they were pressed
ReleaseOrderGiven(mods) == mods

\* modifiers.iter().rev()
ReleaseOrder(mods) == Reverse(mods)

KeyRest == <<engine, gray_vars, wait_vars, resize_vars, hotkey_vars>>

\* the call up to the end of the parsing loop
KeyCombination ==
  /\ key_pc = "out"
  /\ \E str \in KeyStrings, enigo_created \in BOOLEAN :
       LET parsed == ParseParts(Parts(str), 1, <<>>, None) IN
       /\ key_str' = str
       /\ key_events' = <<>>
       /\ key_idx' = 1
       /\ IF ~enigo_created
          THEN /\ key_pc' = "returned"
               /\ key_result' = "InputError"
               /\ modifiers' = <<>>
               /\ main_key' = None
          ELSE /\ modifiers' = parsed.modifiers
               /\ main_key' = parsed.main_key
               /\ IF parsed.ok
                  THEN key_pc' = "press" /\ key_result' = ""
                  ELSE key_pc' = "returned" /\ key_result' = "UnknownKey"
  /\ UNCHANGED KeyRest

\* enigo.key(..) has failed: the ? returns the error
KeyFailed ==
  /\ key_pc' = "returned"
  /\ key_result' = "InputError"
  /\ UNCHANGED <<key_events, key_idx>>

\* one turn of the loop of lines 43-47
PressModifier ==
  /\ key_pc = "press"
  /\ key_idx <= Len(modifiers)
  /\ \E sent \in BOOLEAN :
       IF sent
       THEN /\ key_events' =
                 Append(key_events, KeyEvent(modifiers[key_idx], "Press"))
            /\ key_idx' = key_idx + 1
            /\ UNCHANGED <<key_pc, key_result>>
       ELSE KeyFailed
  /\ UNCHANGED <<key_str, modifiers, main_key, KeyRest>>

\* lines 50-54, after the press loop
ClickMainKey ==
  /\ key_pc = "press"
  /\ key_idx > Len(modifiers)
  /\ \E sent \in BOOLEAN :
       IF main_key = None \/ sent
       THEN /\ key_events' =
                 (IF main_key = None THEN key_events
                  ELSE Append(key_events, KeyEvent(main_key[1], "Click")))
            /\ key_idx' = 1
            /\ key_pc' = "release"
            /\ UNCHANGED key_result
       ELSE KeyFailed
  /\ UNCHANGED <<key_str, modifiers, main_key, KeyRest>>

\* one turn of the loop of lines 57-61
ReleaseModifier ==
  /\ key_pc = "release"
  /\ key_idx <= Len(modifiers)
  /\ \E sent \in BOOLEAN :
       IF sent
       THEN /\ key_events' =
                 Append(key_events,
                        KeyEvent(ReleaseOrder(modifiers)[key_idx], "Release"))
            /\ key_idx' = key_idx + 1
            /\ UNCHANGED <<key_pc, key_result>>
       ELSE KeyFailed
  /\ UNCHANGED <<key_str, modifiers, main_key, KeyRest>>

\* Ok(())
KeyReturnOk ==
  /\ key_pc = "release"
  /\ key_idx > Len(modifiers)
  /\ key_pc' = "returned"
  /\ key_result' = "Ok"
  /\ UNCHANGED <<key_str, modifiers, main_key, key_idx, key_events, KeyRest>>

\* the caller has taken the result
KeyDone ==
  /\ key_pc = "returned"
  /\ key_pc' = "out"
  /\ key_str' = <<>>
  /\ modifiers' = <<>>
  /\ main_key' = None
  /\ key_idx' = 0
  /\ key_events' = <<>>
  /\ key_result' = ""
  /\ UNCHANGED KeyRest

NextKey ==
  \/ KeyCombination
  \/ PressModifier
  \/ ClickMainKey
  \/ ReleaseModifier
  \/ KeyReturnOk
  \/ KeyDone

KeySpec == Init /\ [][NextKey]_vars

\* a call that has been entered runs to its return: match_templates_batch and
\* match_hint_images are straight-line code over a finite iterator, so the
\* thread that runs them takes each of their steps
RunCall ==
  \/ DecodeScreenshot
  \/ Decode
  \/ ScaleAlign
  \/ OpacityGate
  \/ Composite
  \/ SizeGuard
  \/ Correlate
  \/ ClassifyMatch
  \/ ReturnBatch
  \/ ReturnHint

FairSpec == Spec /\ WF_vars(RunCall)

\* ---------------------------------------------------- the pipeline as a whole
\* find_template_internal as a function of its four arguments
FindTemplateInternal(gray, t, s, thr) ==
  LET d == DecodeTemplateImage(t) IN
  IF ~d.ok THEN DecodeErrorResult(d.msg, d.code)
  ELSE
    LET scaled == ScaleTemplate(d.img, s, t) IN
    IF BelowMinOpacity(CalculateOpacityRatio(scaled))
    THEN InsufficientOpacityResult(scaled.w, scaled.h)
    ELSE
      LET tgray == ConvertToGrayscaleWithAlpha(scaled) IN
      IF TemplateTooLarge(tgray.w, tgray.h, gray)
      THEN TemplateTooLargeResult(tgray.w, tgray.h)
      ELSE
        LET e == FindExtremes(gray, tgray, t) IN
        IF NonFinite(e.max_value)
        THEN NonFiniteConfidenceResult(tgray.w, tgray.h)
        ELSE Classify(e, thr, tgray.w, tgray.h)

\* the entry find_template_in_screenshot returns when the screenshot does not
\* decode: the error's own text as the message
SingleScreenshotErrorResult(err) ==
  MatchResult(FALSE, None, None, None, 0, 0, Some(err),
              Some("ScreenshotDecodeError"))

\* mutant: the threshold argument is replaced by the default
FindTemplateInScreenshotDefault(shot, t, s, thr) ==
  LET d == DecodeBase64Image(shot) IN
  IF ~d.ok THEN SingleScreenshotErrorResult(d.err)
  ELSE FindTemplateInternal(ToLuma8(d.img), t, s, F(DefaultThreshold))

\* find_template_in_screenshot as a function of its four arguments
FindTemplateInScreenshot(shot, t, s, thr) ==
  LET d == DecodeBase64Image(shot) IN
  IF ~d.ok THEN SingleScreenshotErrorResult(d.err)
  ELSE FindTemplateInternal(ToLuma8(d.img), t, s, thr)

\* match_templates_batch as a function of its four arguments
BatchResults(shot, templates, s, thr) ==
  LET d == DecodeBase64Image(shot) IN
  IF ~d.ok THEN ScreenshotErrorResults(templates, d.err)
  ELSE [k \in 1..Len(templates) |->
          <<templates[k].file_name,
            FindTemplateInternal(ToLuma8(d.img), templates[k].image_data,
                                 s, thr)>>]

\* what a call returns, as a function of its arguments
CallValue(c) ==
  IF c.api = "hint"
  THEN HintImageMatchResults(
         BatchResults(c.screenshot_base64, c.templates, c.scale_factor,
                      UnwrapOr(c.confidence_threshold, F(DefaultThreshold))))
  ELSE BatchResults(c.screenshot_base64, c.templates, c.scale_factor,
                    c.confidence_threshold[1])

\* ------------------------------------------------------ reading the state
N == Len(call.templates)
ShotDecodes == call.screenshot_base64.kind = "image"
Input(k) == call.templates[k].image_data
\* the MatchResult and the file name of the k-th returned entry
OutResult(k) == IF call.api = "hint" THEN out[k].match_result ELSE out[k][2]
OutName(k) == IF call.api = "hint" THEN out[k].file_name ELSE out[k][1]
\* stage name was run for slot k in this call
HasRun(k, name) == \E j \in 1..Len(log) : log[j] = Ran(k, name)
\* the last step taken was stage name (of slot Len(results) if it ended there)
JustRan(name) == Len(log) > 0 /\ log[Len(log)].stage = name
ErrorCodeIs(r, code) == r.error_code = Some(code)

\* ------------------------------------------------------------------ C1
\* C1: when a call has returned, the returned list has as many entries as the
\* input template list, entry k carries the file name of input template k,
\* and match_hint_images numbers the entries 0, 1, 2, ... in input order.
C1_LengthAndOrder ==
  pc = "done" =>
    /\ Len(out) = N
    /\ \A k \in 1..N :
         /\ OutName(k) = call.templates[k].file_name
         /\ call.api = "hint" => out[k].index = k - 1

\* a hint call over two differently named templates, the first corrupt, the
\* second running the whole pipeline, has returned
C1_Witness ==
  /\ pc = "done" /\ call.api = "hint" /\ ShotDecodes /\ N = MaxTemplates
  /\ call.templates[1].file_name # call.templates[N].file_name
  /\ Input(1).kind = "bad_image"
  /\ HasRun(N, "Classify")

\* ------------------------------------------------------------------ C2
\* C2: when the screenshot does not decode, the call returns one entry per
\* requested template, in request order, all with the same result: not found,
\* no center, error code ScreenshotDecodeError; and no stage of any template's
\* pipeline has run.
C2_ScreenshotDecodeError ==
  (pc = "done" /\ ~ShotDecodes) =>
    /\ Len(out) = N
    /\ \A k \in 1..N :
         /\ OutName(k) = call.templates[k].file_name
         /\ OutResult(k).found = FALSE
         /\ OutResult(k).center_x = None /\ OutResult(k).center_y = None
         /\ ErrorCodeIs(OutResult(k), "ScreenshotDecodeError")
         /\ OutResult(k) = OutResult(1)
    /\ \A j \in 1..Len(log) : log[j].slot = 0

\* a call with an undecodable screenshot and two templates that would have
\* ended differently (one corrupt, one a valid image) has returned
C2_Witness ==
  /\ pc = "done" /\ ~ShotDecodes /\ N = MaxTemplates
  /\ Input(1).kind = "image" /\ Input(N).kind = "bad_base64"
  /\ ErrorCodeIs(OutResult(N), "ScreenshotDecodeError")

\* ------------------------------------------------------------------ C3
\* C3: with a decodable screenshot, the result collected for slot k is a
\* function of the screenshot, template k, the scale factor and the threshold
\* alone (so no other template of the list can change it), and the call
\* returns a full list whatever the other templates are.
C3_SlotIndependence ==
  ShotDecodes =>
    /\ \A k \in 1..Len(results) :
         results[k][2] =
           FindTemplateInternal(
             ToLuma8(DecodeBase64Image(call.screenshot_base64).img),
             Input(k), call.scale_factor, threshold)
    /\ pc = "done" => Len(out) = N

\* a batch whose first template is corrupt and whose last one was matched has
\* returned both results
C3_Witness ==
  /\ pc = "done" /\ ShotDecodes /\ N = MaxTemplates
  /\ Input(1).kind = "bad_base64" /\ Input(1) # Input(N)
  /\ ErrorCodeIs(OutResult(1), "TemplateBase64DecodeError")
  /\ HasRun(N, "Correlate")

\* slot of the last stage run, and whether that stage ended the slot's pipeline
LastSlot == log[Len(log)].slot
LastEnded == Len(results) = LastSlot
LastResult == results[Len(results)][2]
ExceedsScreenshot(img) ==
  img.w > screenshot_gray.w \/ img.h > screenshot_gray.h
\* 10 * opaque < total: fewer than one pixel in ten has alpha > 0
UnderTenth(opaque, total) == 10 * opaque < total

C5_Original ==
  (Len(log) > 0 /\ LastSlot > 0 /\ LastEnded /\ HasRun(LastSlot, "ScaleAlign")
     /\ ExceedsScreenshot(template))
    => /\ LastResult.found = FALSE
       /\ ErrorCodeIs(LastResult, "TemplateTooLarge")

\* C5 amended: a template that has passed the opacity gate and whose
\* post-scale width or height exceeds the screenshot's ends at the size guard
\* with found = false and TemplateTooLarge, and no correlation is run for it.
C5_SizeGuard ==
  /\ JustRan("SizeGuard") =>
       IF ExceedsScreenshot(template)
       THEN /\ LastEnded
            /\ LastResult.found = FALSE
            /\ ErrorCodeIs(LastResult, "TemplateTooLarge")
       ELSE ~LastEnded /\ stage = "Correlate"
  /\ \A k \in 1..Len(results) :
       ErrorCodeIs(results[k][2], "TemplateTooLarge")
         => ~HasRun(k, "Correlate")

\* a template wider but not taller than the screenshot was rejected
C5_Witness ==
  /\ JustRan("SizeGuard") /\ LastEnded
  /\ template.w > screenshot_gray.w /\ template.h <= screenshot_gray.h
  /\ ErrorCodeIs(LastResult, "TemplateTooLarge")

\* ------------------------------------------------------------------ C6
\* C6: every confidence in a collected or returned result is finite, and a
\* correlation maximum that is NaN or infinite ends the slot with
\* found = false, no confidence and NonFiniteConfidence.
C6_FiniteConfidence ==
  /\ \A k \in 1..Len(results) :
       IsSome(results[k][2].confidence)
         => results[k][2].confidence[1].cls = "finite"
  /\ pc = "done" =>
       \A k \in 1..Len(out) :
         IsSome(OutResult(k).confidence)
           => OutResult(k).confidence[1].cls = "finite"
  /\ (JustRan("Correlate") /\ extremes.max_value.cls # "finite") =>
       /\ LastEnded
       /\ LastResult.found = FALSE
       /\ LastResult.confidence = None
       /\ ErrorCodeIs(LastResult, "NonFiniteConfidence")

\* an infinite correlation maximum was turned into the error entry
C6_Witness ==
  /\ JustRan("Correlate") /\ LastEnded
  /\ extremes.max_value = PosInf
  /\ ErrorCodeIs(LastResult, "NonFiniteConfidence")

\* ------------------------------------------------------------------ C7
\* C7: classification of a finite maximum m at (x, y) for a w by h template
\* gives found = true exactly when m >= threshold, and then the center is
\* (x + floor(w/2), y + floor(h/2)), the confidence is m and there is no error.
C7_Classification ==
  JustRan("Classify") =>
    /\ extremes.max_value.cls = "finite"
    /\ LastEnded
    /\ LastResult.found <=> extremes.max_value.v >= threshold.v
    /\ LastResult.found =>
         /\ LastResult.center_x =
              Some(extremes.max_value_location[1] + template.w \div 2)
         /\ LastResult.center_y =
              Some(extremes.max_value_location[2] + template.h \div 2)
         /\ LastResult.confidence = Some(extremes.max_value)
         /\ LastResult.error = None
         /\ LastResult.error_code = None

\* a maximum equal to the threshold, away from the origin, for a template of
\* odd width, was classified as found
C7_Witness ==
  /\ JustRan("Classify") /\ LastEnded
  /\ extremes.max_value = threshold
  /\ extremes.max_value_location = <<1, 1>>
  /\ template.w = 3
  /\ LastResult.found
  /\ LastResult.center_x = Some(2)

\* ------------------------------------------------------------------ C8
\* C8: a finite maximum below the threshold gives found = false with no
\* center, the confidence still reported, and neither error nor error code.
C8_BelowThreshold ==
  (JustRan("Classify") /\ extremes.max_value.v < threshold.v) =>
    /\ LastEnded
    /\ LastResult.found = FALSE
    /\ LastResult.center_x = None
    /\ LastResult.center_y = None
    /\ LastResult.confidence = Some(extremes.max_value)
    /\ LastResult.error = None
    /\ LastResult.error_code = None

\* a maximum just below the threshold was classified
C8_Witness ==
  /\ JustRan("Classify") /\ LastEnded
  /\ extremes.max_value = F(69) /\ threshold = F(70)
  /\ LastResult.found = FALSE
  /\ LastResult.confidence = Some(F(69))

\* ------------------------------------------------------------------ C9
\* r is orig * s rounded to the nearest integer, halves away from zero
IsRounded(r, orig, s) ==
  /\ 2 * s.d * r - s.d <= 2 * orig * s.n
  /\ 2 * orig * s.n < 2 * s.d * r + s.d
\* dim = max(1, round(orig * s))
IsClampedRounded(dim, orig, s) ==
  IF 2 * orig * s.n < s.d THEN dim = 1 ELSE IsRounded(dim, orig, s)

\* C9 as stated: for every template the pipeline decodes and every scale
\* factor the reported dimensions are max(1, round(w*s)) and max(1, round(h*s)).
C9_Original ==
  \A k \in 1..Len(results) :
    HasRun(k, "ScaleAlign") =>
      /\ IsClampedRounded(results[k][2].template_width, Input(k).w,
                          call.scale_factor)
      /\ IsClampedRounded(results[k][2].template_height, Input(k).h,
                          call.scale_factor)

\* C9 amended: for every template the pipeline has decoded, the reported
\* dimensions are max(1, round(w*s)) and max(1, round(h*s)) when s <= 1.0 and
\* the original w and h when s > 1.0; in both cases they are at least 1.
C9_ReportedDimensions ==
  \A k \in 1..Len(results) :
    HasRun(k, "ScaleAlign") =>
      LET r == results[k][2]
          s == call.scale_factor
      IN /\ r.template_width >= 1 /\ r.template_height >= 1
         /\ IF s.n <= s.d
            THEN /\ IsClampedRounded(r.template_width, Input(k).w, s)
                 /\ IsClampedRounded(r.template_height, Input(k).h, s)
            ELSE /\ r.template_width = Input(k).w
                 /\ r.template_height = Input(k).h

\* a 5 x 2 template at scale 1/4: 1.25 rounds to 1, and 0.5 rounds to 1
C9_Witness ==
  /\ pc = "done" /\ N = 1 /\ HasRun(1, "ScaleAlign")
  /\ call.scale_factor = [n |-> 1, d |-> 4]
  /\ Input(1).w = 5 /\ Input(1).h = 2
  /\ OutResult(1).template_width = 1 /\ OutResult(1).template_height = 1

\* ------------------------------------------------------------------ C10
\* C10: with scale_factor >= 1.0 the decoded template reaches the opacity
\* gate as it was decoded (same dimensions, same pixels), and with any scale
\* factor neither post-scale dimension is larger than the original one.
C10_NeverUpscale ==
  JustRan("ScaleAlign") =>
    /\ stage = "OpacityGate"
    /\ call.scale_factor.n >= call.scale_factor.d =>
         template = Image(Input(LastSlot).w, Input(LastSlot).h,
                          Input(LastSlot).opaque, "decoded")
    /\ template.px = "resampled" => call.scale_factor.n < call.scale_factor.d
    /\ template.w <= Input(LastSlot).w
    /\ template.h <= Input(LastSlot).h

\* a 5 x 2 template passed scale alignment untouched at scale 3/2
C10_Witness ==
  /\ JustRan("ScaleAlign")
  /\ call.scale_factor = [n |-> 3, d |-> 2]
  /\ template = Image(5, 2, 10, "decoded")

\* ------------------------------------------------------------------ C11
\* C11: every error code the engine puts into a result is one of the six
\* codes of the enum, and for it is_permanent is false exactly for
\* ScreenshotDecodeError and TemplateTooLarge, is_size_related is true exactly
\* for TemplateTooLarge, and the two are never both true.
C11_ErrorCodeTable ==
  \A k \in 1..Len(results) :
    IsSome(results[k][2].error_code) =>
      LET code == results[k][2].error_code[1] IN
        /\ code \in MatchErrorCodes
        /\ IsPermanent(code) <=>
             code \notin {"ScreenshotDecodeError", "TemplateTooLarge"}
        /\ IsSizeRelated(code) <=> code = "TemplateTooLarge"
        /\ ~(IsPermanent(code) /\ IsSizeRelated(code))

\* a batch has collected a size-related code next to a permanent one
C11_Witness ==
  /\ Len(results) = MaxTemplates
  /\ \E k \in 1..Len(results) :
       /\ ErrorCodeIs(results[k][2], "TemplateTooLarge")
       /\ IsSizeRelated(results[k][2].error_code[1])
       /\ ~IsPermanent(results[k][2].error_code[1])
  /\ \E k \in 1..Len(results) :
       /\ ErrorCodeIs(results[k][2], "InsufficientOpacity")
       /\ IsPermanent(results[k][2].error_code[1])

\* ------------------------------------------------------------------ C12
StageOrder ==
  <<"Decode", "ScaleAlign", "OpacityGate", "Composite", "SizeGuard",
    "Correlate", "Classify">>
\* the stages run for slot k, in the order they were run
StagesOf(k) == SelectSeq(log, LAMBDA e : e.slot = k)
\* Success (found or not found): no error, no error code
IsSuccess(r) == r.error_code = None /\ r.error = None
\* Failure: not found, one error code of the enum and its message
IsFailure(r) ==
  /\ r.found = FALSE
  /\ IsSome(r.error_code) /\ r.error_code[1] \in MatchErrorCodes
  /\ IsSome(r.error)

\* the stages run for every slot are the first stages of the order, each once;
\* a slot has an outcome exactly when its run has ended, a run that reached
\* Classify ends in Success and a run that ended before it ends in Failure
RunsInOrder ==
  \A k \in 1..Len(call.templates) :
    LET run == StagesOf(k) IN
      /\ Len(run) <= Len(StageOrder)
      /\ \A j \in 1..Len(run) : run[j].stage = StageOrder[j]
      /\ Len(run) > 0 =>
           IF k <= Len(results)
           THEN LET r == results[k][2] IN
                  /\ IsSuccess(r) # IsFailure(r)
                  /\ IsSuccess(r) <=> run[Len(run)].stage = "Classify"
           ELSE /\ k = i /\ pc = "template"
                /\ Len(run) < Len(StageOrder)
                /\ stage = StageOrder[Len(run) + 1]

\* C12: every per-template run goes through Decode, ScaleAlign, OpacityGate,
\* Composite, SizeGuard, Correlate, Classify in that order, each at most once
\* and never back to an earlier one, and every run that has started ends, in
\* exactly one outcome: Success (found or not found) or Failure with one code.
C12_StageOrder ==
  /\ []RunsInOrder
  /\ \A k \in 1..MaxTemplates :
       (pc = "template" /\ i = k) ~> (Len(results) >= k /\ i > k)

\* of one call, a run that ended in Failure at the opacity gate after three
\* stages and a run that went through all seven stages and ended in Success
C12_Witness ==
  /\ pc = "done" /\ N = MaxTemplates
  /\ Len(StagesOf(1)) = 3 /\ ErrorCodeIs(results[1][2], "InsufficientOpacity")
  /\ Len(StagesOf(N)) = 7 /\ results[N][2].found

\* ------------------------------------------------------------------ C13
\* how many times the screenshot was decoded in this call
ScreenshotDecodings ==
  Len(SelectSeq(log, LAMBDA e : e.stage = "DecodeScreenshot"))
Started == pc \in {"template", "collect", "done"}

\* C13: in one call the screenshot is decoded and converted to grayscale
\* exactly once, as the first step, before any stage of any template; while
\* templates are processed and after, the grayscale screenshot in use is that
\* decoding of the call's screenshot argument.
C13_DecodedOnce ==
  /\ ScreenshotDecodings <= 1
  /\ Started =>
       /\ ScreenshotDecodings = 1
       /\ log[1] = Ran(0, "DecodeScreenshot")
  /\ (\E j \in 1..Len(log) : log[j].slot > 0) =>
       /\ ShotDecodes
       /\ screenshot_gray =
            Image(call.screenshot_base64.w, call.screenshot_base64.h,
                  call.screenshot_base64.w * call.screenshot_base64.h, "gray")

\* a call over two templates with different outcomes (one corrupt, one
\* correlated against the screenshot) has returned after one decoding
C13_Witness ==
  /\ pc = "done" /\ N = MaxTemplates /\ ScreenshotDecodings = 1
  /\ ErrorCodeIs(results[1][2], "TemplateImageDecodeError")
  /\ HasRun(N, "Correlate")
  /\ screenshot_gray = Image(4, 3, 12, "gray")

\* ------------------------------------------------------------------ C14
\* r is the entry of a template that failed to decode, with the given code
IsDecodeFailure(r, code) ==
  /\ ErrorCodeIs(r, code)
  /\ r.found = FALSE
  /\ r.confidence = None
  /\ r.center_x = None /\ r.center_y = None
  /\ r.template_width = 0 /\ r.template_height = 0

\* C14: of the templates whose pipeline was run, one whose data is not valid
\* base64 gets TemplateBase64DecodeError and one whose bytes are not an image
\* gets TemplateImageDecodeError, both with found = false, no confidence and
\* dimensions 0 x 0 and with no stage after Decode run; and each of the two
\* codes is reported for its own cause only.
C14_TemplateDecodeErrors ==
  \A k \in 1..Len(results) :
    HasRun(k, "Decode") =>
      LET r == results[k][2] IN
        /\ Input(k).kind = "bad_base64" =>
             IsDecodeFailure(r, "TemplateBase64DecodeError")
        /\ Input(k).kind = "bad_image" =>
             IsDecodeFailure(r, "TemplateImageDecodeError")
        /\ ErrorCodeIs(r, "TemplateBase64DecodeError") =>
             Input(k).kind = "bad_base64" /\ Len(StagesOf(k)) = 1
        /\ ErrorCodeIs(r, "TemplateImageDecodeError") =>
             Input(k).kind = "bad_image" /\ Len(StagesOf(k)) = 1

\* one call has collected both decode failures, each under its own code
C14_Witness ==
  /\ Len(results) = MaxTemplates
  /\ Input(1).kind = "bad_base64" /\ Input(MaxTemplates).kind = "bad_image"
  /\ IsDecodeFailure(results[1][2], "TemplateBase64DecodeError")
  /\ IsDecodeFailure(results[MaxTemplates][2], "TemplateImageDecodeError")

\* ------------------------------------------------------------------ C15
\* C15: in a match_hint_images call the threshold the engine works with is
\* 0.7 when the caller gave none and the caller's value otherwise; every
\* classification compares against that value, and the returned list is the
\* one the engine computes for these arguments with that threshold, so a call
\* without a threshold returns what the call with 0.7 returns.
C15_DefaultThreshold ==
  (call.api = "hint" /\ pc # "idle") =>
    LET given == call.confidence_threshold
        effective == IF given = None THEN F(70) ELSE given[1]
    IN /\ threshold = effective
       /\ JustRan("Classify") =>
            (LastResult.found <=> Ge(extremes.max_value, effective))
       /\ pc = "done" =>
            out = HintImageMatchResults(
                    BatchResults(call.screenshot_base64, call.templates,
                                 call.scale_factor, effective))

\* a call without a threshold has returned a match whose confidence is 0.7
C15_Witness ==
  /\ pc = "done" /\ call.api = "hint" /\ call.confidence_threshold = None
  /\ N = 1 /\ JustRan("Classify")
  /\ extremes.max_value = F(70)
  /\ out[1].match_result.found

\* ------------------------------------------------------------------ C16
\* C16: whether or not calls have been made before, the list a call returns
\* is the value of one function of its screenshot, templates, scale factor and
\* threshold (so two calls with the same arguments return the same list), and
\* between calls nothing of a call is left in the engine.
C16_NoStateBetweenCalls ==
  /\ pc = "done" => out = CallValue(call)
  /\ pc = "idle" =>
       /\ call = NoCall /\ threshold = F(DefaultThreshold)
       /\ screenshot_gray = NoImage /\ template = NoImage
       /\ extremes = NoExtremes /\ results = <<>> /\ out = <<>>

\* a call made after an earlier call has returned a match and a failure
C16_Witness ==
  /\ called_before /\ pc = "done" /\ N = MaxTemplates
  /\ OutResult(1).found
  /\ ErrorCodeIs(OutResult(N), "NonFiniteConfidence")

\* ------------------------------------------------------------------ C17
\* C17: from the moment the screenshot has been decoded until the call
\* returns, no step (no stage of any template, nor collecting the results)
\* changes the decoded screenshot.
C17_ScreenshotUnchanged ==
  [][(pc = "template" \/ pc = "collect") =>
       (screenshot_gray' = screenshot_gray)]_vars

\* after the last of two templates, both correlated against it, the decoded
\* screenshot is the image it was decoded to
C17_Witness ==
  /\ pc = "collect" /\ N = MaxTemplates
  /\ HasRun(1, "Correlate") /\ HasRun(N, "Classify")
  /\ screenshot_gray = Image(4, 3, 12, "gray")

\* ------------------------------------------------------------------ C18
\* C18: with stop requests (and their clearing) arriving at any moment, a call
\* in which the flag is set or was set while a template's pipeline ran still
\* runs every pipeline through its stages in order up to its own outcome, and
\* every collected and returned result is the one the pipeline computes from
\* its inputs alone: the flag's value shows in no result.
C18_StopNotObserved ==
  (stop_requested \/ stopped_in_run) =>
    /\ RunsInOrder
    /\ ShotDecodes =>
         \A k \in 1..Len(results) :
           results[k][2] =
             FindTemplateInternal(
               ToLuma8(DecodeBase64Image(call.screenshot_base64).img),
               Input(k), call.scale_factor,
               UnwrapOr(call.confidence_threshold, F(DefaultThreshold)))
    /\ pc = "done" => Len(out) = N /\ out = CallValue(call)

\* a stop request came during a template's pipeline, the flag is still set,
\* and the call has returned a match for each of its templates
C18_Witness ==
  /\ stopped_in_run /\ stop_requested
  /\ pc = "done" /\ N = MaxTemplates
  /\ \A k \in 1..N : OutResult(k).found /\ Len(StagesOf(k)) = 7

\* ------------------------------------------------------------------ C19
\* dim is the post-scale size of a side of original size orig
IsPostScale(dim, orig, s) ==
  IF s.n < s.d THEN IsClampedRounded(dim, orig, s) ELSE dim = orig

\* C19: for a template rejected with InsufficientOpacity the stages run are
\* Decode, ScaleAlign and OpacityGate and no other (no compositing, size guard
\* or correlation), and its result is not found, has no center and no
\* confidence, and reports the post-scale width and height.
C19_OpacityRejection ==
  \A k \in 1..Len(results) :
    ErrorCodeIs(results[k][2], "InsufficientOpacity") =>
      LET r == results[k][2] IN
        /\ HasRun(k, "OpacityGate")
        /\ \A j \in 1..Len(log) :
             log[j].slot = k =>
               log[j].stage \in {"Decode", "ScaleAlign", "OpacityGate"}
        /\ r.found = FALSE
        /\ r.center_x = None /\ r.center_y = None
        /\ r.confidence = None
        /\ IsPostScale(r.template_width, Input(k).w, call.scale_factor)
        /\ IsPostScale(r.template_height, Input(k).h, call.scale_factor)

\* a transparent 5 x 2 template was rejected at scale 1/2 as 3 x 1
C19_Witness ==
  /\ JustRan("OpacityGate") /\ LastEnded
  /\ Input(LastSlot).w = 5 /\ Input(LastSlot).h = 2
  /\ call.scale_factor = [n |-> 1, d |-> 2]
  /\ ErrorCodeIs(LastResult, "InsufficientOpacity")
  /\ LastResult.template_width = 3 /\ LastResult.template_height = 1
  /\ LastResult.confidence = None

\* ------------------------------------------------------------------ C21
\* 1000 * (0.299 R + 0.587 G + 0.114 B), exactly
Luma1000(p) == 299 * p.r + 587 * p.g + 114 * p.b
\* round(x / 1000), halves away from zero
RoundThousandths(x) == (x + 500) \div 1000
SameSize(a, b) == a.w = b.w /\ a.h = b.h /\ Len(a.data) = Len(b.data)

\* C21 as stated: the output has the input's width and height, a pixel with
\* alpha 0 becomes 255 whatever its colour, and a pixel with alpha 255 becomes
\* round(0.299 R + 0.587 G + 0.114 B).
C21_Original ==
  /\ SameSize(gray_image, rgba)
  /\ \A k \in 1..Len(rgba.data) :
       LET p == rgba.data[k] IN
         /\ p.a = 0 => gray_image.data[k] = 255
         /\ p.a = 255 => gray_image.data[k] = RoundThousandths(Luma1000(p))

\* C21 amended: the output has the input's width and height, a pixel with
\* alpha 0 becomes 255 whatever its colour, and a pixel with alpha 255 becomes
\* an integer nearest to 0.299 R + 0.587 G + 0.114 B: the rounded value when
\* the sum is not at an exact half, and either neighbour when it is.
C21_Compositing ==
  /\ SameSize(gray_image, rgba)
  /\ \A k \in 1..Len(rgba.data) :
       LET p == rgba.data[k]
           v == gray_image.data[k]
       IN /\ v \in 0..255
          /\ p.a = 0 => v = 255
          /\ p.a = 255 =>
               /\ 1000 * v - 500 <= Luma1000(p)
               /\ Luma1000(p) <= 1000 * v + 500
               /\ Luma1000(p) % 1000 # 500 => v = RoundThousandths(Luma1000(p))

\* an image of the largest size, made of a transparent dark pixel and an
\* opaque pixel whose weighted sum is exactly 26.5, has been converted to
\* 255 and 26
C21_Witness ==
  /\ rgba.w = MaxSide /\ rgba.h = MaxSide
  /\ rgba.data[2] = Rgba(4, 40, 16, 0) /\ gray_image.data[2] = 255
  /\ rgba.data[1] = Rgba(4, 40, 16, 255)
  /\ Luma1000(rgba.data[1]) = 26500
  /\ gray_image.data[1] = 26

\* ------------------------------------------------------------------ C22
\* C22 as stated: a wait during which a stop request was made before the
\* duration had elapsed returns Ok(false), and a wait returns Ok(true) only
\* when the whole duration has elapsed.
C22_Original ==
  wait_pc = "done" =>
    /\ stop_during_wait => wait_result = Some(FALSE)
    /\ wait_result = Some(TRUE) => elapsed >= total_duration

WaitReturnsWhatItRead ==
  wait_pc = "done" =>
    /\ wait_result \in {Some(TRUE), Some(FALSE)}
    /\ wait_result = Some(FALSE) <=> last_check = Some(TRUE)
    /\ wait_result = Some(FALSE) => elapsed < total_duration
    /\ wait_result = Some(TRUE) => elapsed = total_duration

\* C22 amended: wait reads the stop flag before each sleep.  A read that finds
\* the flag set makes it return Ok(false) at once, before the duration has
\* elapsed; it returns Ok(false) in no other case, and Ok(true) only when the
\* whole duration has elapsed with every read finding the flag clear.  (A
\* request made after the last read, or cleared before the next one, is not
\* noticed.)
C22_WaitResult ==
  /\ []WaitReturnsWhatItRead
  /\ [][(WaitLoop /\ elapsed < total_duration /\ stop_requested)
          => (wait_result' = Some(FALSE) /\ wait_pc' = "done")]_vars

\* a wait was cancelled after two sleeps by a stop request made meanwhile
C22_Witness ==
  /\ wait_pc = "done" /\ wait_result = Some(FALSE)
  /\ stop_during_wait /\ stop_requested
  /\ sleeps = 2 /\ elapsed = 2 * CHECK_INTERVAL
  /\ total_duration > elapsed

\* C23: resize_screenshot never upscales: the scale_factor it returns is at
\* most 1.0 and both resized dimensions are at most 1920; an image whose long
\* edge is at most 1920 and whose pixel count is at most 2,000,000 comes back
\* with its original dimensions and a scale_factor of 1.0.
C23_NeverUpscales ==
  resize_result # None =>
    LET r == resize_result[1] IN
    /\ ScaleLeq(r.scale_factor, One)
    /\ r.resized_width <= 1920
    /\ r.resized_height <= 1920
    /\ r.final_image.w <= 1920
    /\ r.final_image.h <= 1920
    /\ (/\ Max(resize_image.w, resize_image.h) <= 1920
        /\ resize_image.w * resize_image.h <= 2000000)
         => /\ r.resized_width = resize_image.w
            /\ r.resized_height = resize_image.h
            /\ r.final_image = resize_image
            /\ ScaleLeq(One, r.scale_factor)

\* a 2560x1440 image has come back as 1886x1061
C23_Witness ==
  /\ resize_image = [w |-> 2560, h |-> 1440]
  /\ resize_result # None
  /\ resize_result[1].final_image = [w |-> 1886, h |-> 1061]
  /\ BelowOne(resize_result[1].scale_factor)

\* the threads that are past the guard of register_emergency_stop
PastGuard == {t \in Threads : hotkey_pc[t] # "out"}

\* C24: however many calls of register_emergency_stop are made and from
\* however many threads, at most one is past the HOTKEY_REGISTERED guard at a
\* time, at most one hotkey is registered and at most one listener thread is
\* ever spawned; a call that fails to create the manager or to register the
\* hotkey leaves the flag reset.
C24_SingleRegistration ==
  /\ [](/\ Cardinality(PastGuard) <= 1
        /\ hotkeys <= 1
        /\ listeners <= 1)
  /\ [][\A t \in Threads :
          (hotkey_pc[t] \in {"manager", "register"} /\ hotkey_pc'[t] = "out")
            => HOTKEY_REGISTERED' = FALSE]_vars

\* after a failed call, a later call has registered the hotkey and spawned
\* the listener
C24_Witness ==
  /\ register_failed
  /\ HOTKEY_REGISTERED
  /\ hotkeys = 1
  /\ listeners = 1
  /\ PastGuard = {}

\* ------------------------------------------------------------------ C25
WellFormed(r) ==
  /\ r.found => /\ IsSome(r.center_x) /\ IsSome(r.center_y)
                /\ IsSome(r.confidence)
                /\ ~IsSome(r.error) /\ ~IsSome(r.error_code)
  /\ ~r.found => ~IsSome(r.center_x) /\ ~IsSome(r.center_y)
  /\ IsSome(r.center_x) <=> IsSome(r.center_y)
  /\ IsSome(r.error) <=> IsSome(r.error_code)

\* C25: every MatchResult collected or returned is well formed: found=true
\* implies center_x, center_y and confidence present and error and error_code
\* absent; found=false implies both centers absent; center_x is present
\* exactly when center_y is, and error exactly when error_code is.
C25_WellFormedResults ==
  /\ \A k \in 1..Len(results) : WellFormed(results[k][2])
  /\ pc = "done" => \A k \in 1..Len(out) : WellFormed(OutResult(k))

\* a call has returned a match next to an error entry
C25_Witness ==
  /\ pc = "done"
  /\ N = 2
  /\ OutResult(1).found
  /\ IsSome(OutResult(2).error)

\* ------------------------------------------------------------------ C26
\* the center of r lies inside a screenshot of the given size
CenterInside(r, shot) ==
  /\ 0 <= r.center_x[1] /\ r.center_x[1] < shot.w
  /\ 0 <= r.center_y[1] /\ r.center_y[1] < shot.h

\* C26: whenever a result has found=true its center lies inside the
\* screenshot: 0 <= center_x < screenshot width and 0 <= center_y <
\* screenshot height, for every screenshot size and every post-scale template
\* size that passes the size guard, a template as large as the screenshot
\* included.
C26_CenterInsideScreenshot ==
  /\ \A k \in 1..Len(results) :
       results[k][2].found => CenterInside(results[k][2], call.screenshot_base64)
  /\ pc = "done" =>
       \A k \in 1..Len(out) :
         OutResult(k).found => CenterInside(OutResult(k), call.screenshot_base64)

\* a template exactly as large as the 4x3 screenshot was found, centered at
\* (2, 1)
C26_Witness ==
  /\ pc = "done"
  /\ N = 1
  /\ call.screenshot_base64 = Screenshot("image", 4, 3)
  /\ OutResult(1).found
  /\ OutResult(1).template_width = 4
  /\ OutResult(1).template_height = 3
  /\ OutResult(1).center_x = Some(2)
  /\ OutResult(1).center_y = Some(1)

\* ------------------------------------------------------------------ C27
\* what find_template_in_screenshot returns for the screenshot, scale factor
\* and threshold of the call and its k-th template
Single(k) ==
  FindTemplateInScreenshot(call.screenshot_base64, Input(k),
                           call.scale_factor, threshold)

ReportsScreenshotError(r) ==
  /\ ErrorCodeIs(r, "ScreenshotDecodeError")
  /\ ~r.found
  /\ r.template_width = 0
  /\ r.template_height = 0

\* C27: for a decodable screenshot, slot k of what match_templates_batch
\* returns equals the MatchResult find_template_in_screenshot returns for the
\* same screenshot, template k, scale factor and threshold; for a screenshot
\* that does not decode both report error_code=ScreenshotDecodeError with
\* found=false and dimensions 0x0.
C27_BatchEqualsSingle ==
  pc = "done" =>
    \A k \in 1..N :
      IF ShotDecodes
      THEN OutResult(k) = Single(k)
      ELSE ReportsScreenshotError(OutResult(k))
             /\ ReportsScreenshotError(Single(k))

\* a call over a decodable screenshot with a threshold above the default has
\* returned a miss with confidence 1.0, equal to the single result
C27_Witness ==
  /\ pc = "done"
  /\ ShotDecodes
  /\ N = 1
  /\ threshold = F(101)
  /\ ~OutResult(1).found
  /\ OutResult(1).confidence = Some(F(100))
  /\ OutResult(1) = Single(1)

\* ------------------------------------------------------------------ C28
\* the checks of the pipeline in their order, by the code each reports
CheckCodes ==
  <<"TemplateBase64DecodeError", "TemplateImageDecodeError",
    "InsufficientOpacity", "TemplateTooLarge", "NonFiniteConfidence">>

\* template k as it is after scale alignment
PostScale(k) ==
  ScaleTemplate(DecodeTemplateImage(Input(k)).img, call.scale_factor, Input(k))

\* template k, taken on its own to check j, would fail it
WouldFail(k, j) ==
  CASE j = 1 -> Input(k).kind = "bad_base64"
    [] j = 2 -> Input(k).kind # "image"
    [] j = 3 -> /\ Input(k).kind = "image"
                /\ BelowMinOpacity(CalculateOpacityRatio(PostScale(k)))
    [] j = 4 -> /\ Input(k).kind = "image"
                /\ TemplateTooLarge(PostScale(k).w, PostScale(k).h,
                                    call.screenshot_base64)
    [] j = 5 -> /\ Input(k).kind = "image"
                /\ NonFinite(Input(k).nccMax)

FailedChecks(k) == {j \in 1..Len(CheckCodes) : WouldFail(k, j)}
Earliest(checks_failed) ==
  CHOOSE j \in checks_failed : \A other \in checks_failed : j <= other

\* C28: a template that would fail more than one check is reported with the
\* error code of the earliest failing stage in the order base64 decode, image
\* decode, opacity gate, size guard, non-finite correlation, and with that
\* code only: a template below the opacity threshold and larger than the
\* screenshot is reported as InsufficientOpacity.
C28_EarliestFailingStage ==
  (pc = "done" /\ ShotDecodes) =>
    \A k \in 1..N :
      IF FailedChecks(k) = {}
      THEN OutResult(k).error_code = None
      ELSE OutResult(k).error_code = Some(CheckCodes[Earliest(FailedChecks(k))])

\* a fully transparent 5x2 template, wider than the 4x3 screenshot, has been
\* reported as InsufficientOpacity
C28_Witness ==
  /\ pc = "done"
  /\ N = 1
  /\ call.screenshot_base64 = Screenshot("image", 4, 3)
  /\ FailedChecks(1) = {3, 4}
  /\ ErrorCodeIs(OutResult(1), "InsufficientOpacity")

\* ------------------------------------------------------------------ C29
\* the parts of the argument that name modifiers, and those that do not
ModifierParts == SelectSeq(Parts(key_str), IsModifier)
IsMainPart(part) == ~IsModifier(part)
MainParts == SelectSeq(Parts(key_str), IsMainPart)
HasUnknownPart == \E k \in 1..Len(key_str) : ParseKey(Parts(key_str)[k]) = None

Presses == [k \in 1..Len(ModifierParts) |->
              KeyEvent(ParseKey(ModifierParts[k])[1], "Press")]
Releases == [k \in 1..Len(ModifierParts) |->
               KeyEvent(ParseKey(ModifierParts[Len(ModifierParts) + 1 - k])[1],
                        "Release")]
\* the click of the main key: the last part that is not a modifier, if any
Clicks ==
  IF MainParts = <<>> THEN <<>>
  ELSE <<KeyEvent(ParseKey(MainParts[Len(MainParts)])[1], "Click")>>

\* how many events of the direction the key has had
Count(key, direction) ==
  Cardinality({k \in 1..Len(key_events) :
                 key_events[k] = KeyEvent(key, direction)})
Held(key) == Count(key, "Press") > Count(key, "Release")

\* C29: key_combination parses every part before it sends any key event, so
\* a combination with an unknown key name returns an error with no key
\* pressed; when it returns Ok it has pressed the modifiers in the given
\* order, clicked the main key and released the modifiers in reverse order,
\* and no modifier is left held.
C29_ParseBeforeSend ==
  /\ HasUnknownPart => key_events = <<>> /\ key_result # "Ok"
  /\ (key_pc = "returned" /\ HasUnknownPart) =>
       key_result \in {"UnknownKey", "InputError"}
  /\ key_result = "Ok" =>
       /\ key_events = Presses \o Clicks \o Releases
       /\ \A k \in 1..Len(modifiers) : ~Held(modifiers[k])

\* " shift +Ctrl+S" has returned Ok after Shift and Control were pressed, s
\* clicked, Control and Shift released
C29_Witness ==
  /\ key_result = "Ok"
  /\ key_str = <<" shift ", "Ctrl", "S">>
  /\ key_events =
       <<KeyEvent(Key("Shift"), "Press"), KeyEvent(Key("Control"), "Press"),
         KeyEvent(Unicode("s"), "Click"),
         KeyEvent(Key("Control"), "Release"), KeyEvent(Key("Shift"), "Release")>>

\* ------------------------------------------------------------------ C30
\* ceil(d / 100)
CeilIntervals(d) == (d + CHECK_INTERVAL - 1) \div CHECK_INTERVAL

WaitIsBounded ==
  /\ sleeps <= CeilIntervals(total_duration)
  /\ sleep_time <= CHECK_INTERVAL
  /\ elapsed <= total_duration
  /\ wait_pc = "loop" => checks = sleeps
  /\ wait_pc = "sleep" => checks = sleeps + 1
  /\ wait_pc = "done" => checks \in {sleeps, sleeps + 1}
  /\ (wait_pc = "done" /\ total_duration = 0) =>
       /\ checks = 0
       /\ sleeps = 0
       /\ wait_result = Some(TRUE)

\* C30: the wait command always terminates.  For a duration of d milliseconds
\* it performs at most ceil(d / 100) sleeps, each of at most 100 ms, whose
\* total never exceeds d, and reads the stop flag once before each sleep; with
\* d = 0 it performs no check and no sleep and returns Ok(true).
C30_WaitTerminates ==
  /\ []WaitIsBounded
  /\ [][WaitSleep => checks = sleeps + 1]_vars
  /\ (wait_pc = "loop" \/ wait_pc = "sleep") ~> (wait_pc = "done")

\* a wait of 250 ms has returned Ok(true) after sleeps of 100, 100 and 50 ms
C30_Witness ==
  /\ wait_pc = "done"
  /\ total_duration = 250
  /\ wait_result = Some(TRUE)
  /\ sleeps = 3
  /\ checks = 3
  /\ sleep_time = 50
  /\ elapsed = 250


====
